---- MODULE Spec2Model ----
(***************************************************************************)
(* A model of rum, a virtual machine for the 14-instruction "Universal     *)
(* Machine": the segmented memory manager (memory.rs) and the              *)
(* fetch-decode-execute engine (machine.rs).                               *)
(*                                                                         *)
(* A u32 is modelled as a pair <<hi, lo>> of 16-bit halves, because the    *)
(* model checker's integers are narrower than 2^32; every operation on     *)
(* words is written on that pair and keeps the 32-bit width.               *)
(***************************************************************************)
EXTENDS Integers, Sequences, FiniteSets, TLC

(***************************************************************************)
(* Bounds of the model.                                                    *)
(***************************************************************************)
\* largest number of slots the segment table may grow to
MaxSegs == 3
\* largest length the reuse pool may grow to
MaxPool == 2

(***************************************************************************)
(* 32-bit words.                                                           *)
(***************************************************************************)
Half == 2^16

\* the word whose value is the small natural n
W(n) == <<n \div Half, n % Half>>

\* `w as usize` (used only where the value fits the checker's integers)
AsUsize(w) == w[1] * Half + w[2]

\* a < b on u32
WordLT(a, b) == a[1] < b[1] \/ (a[1] = b[1] /\ a[2] < b[2])

\* the absence of a word: the value of a call that returns nothing or panics
NoWord == <<>>

\* vec![0; n]
Zeros(n) == [i \in 1..n |-> W(0)]

\* Vec::resize(n, 0): truncates, or extends with zeros; kept words are kept
Resize(v, n) == [i \in 1..n |-> IF i <= Len(v) THEN v[i] ELSE W(0)]

\* HashMap::insert
Insert(h, k, v) == [j \in DOMAIN h \cup {k} |-> IF j = k THEN v ELSE h[j]]

\* HashMap::len, as u32
HeapLen(m) == W(Cardinality(DOMAIN m.heap))

\* `v[address as usize]` is in bounds
InBounds(v, address) == WordLT(address, W(Len(v)))

\* `v[address as usize]`, in bounds
Index(v, address) == v[AsUsize(address) + 1]

(***************************************************************************)
(* u32 arithmetic and bit operations, on pairs of 16-bit halves.           *)
(***************************************************************************)
\* x & y on natural numbers, bit by bit
RECURSIVE BitAnd(_, _)
BitAnd(x, y) ==
    IF x = 0 \/ y = 0 THEN 0
    ELSE (x % 2) * (y % 2) + 2 * BitAnd(x \div 2, y \div 2)

\* a & b
AndWord(a, b) == <<BitAnd(a[1], b[1]), BitAnd(a[2], b[2])>>

\* !a
NotWord(a) == <<Half - 1 - a[1], Half - 1 - a[2]>>

\* a >> k, for 0 < k < 32
Shr(a, k) ==
    IF k >= 16
    THEN <<0, a[1] \div 2^(k - 16)>>
    ELSE <<a[1] \div 2^k, (a[2] \div 2^k) + (a[1] % 2^k) * 2^(16 - k)>>

\* a << k, for 0 < k < 16: the bits shifted out of the word are lost
Shl(a, k) ==
    <<((a[1] * 2^k) % Half) + (a[2] \div 2^(16 - k)), (a[2] * 2^k) % Half>>

\* a + b: the wrapped sum, and whether the true sum does not fit a u32
AddWord(a, b) ==
    LET lo == a[2] + b[2]
        hi == a[1] + b[1] + (lo \div Half)
    IN  [val |-> <<hi % Half, lo % Half>>, overflow |-> hi >= Half]

\* the four bytes of a word, least significant first
Bytes(a) == <<a[2] % 256, a[2] \div 256, a[1] % 256, a[1] \div 256>>

\* a * b: the wrapped product, and whether the true product does not fit
MulWord(a, b) ==
    LET x == Bytes(a)
        y == Bytes(b)
        \* the sum of the byte products of weight 256^k
        Col(k) == LET I == {i \in 1..4 : k + 2 - i \in 1..4}
                      RECURSIVE Sum(_)
                      Sum(S) == IF S = {} THEN 0
                                ELSE LET i == CHOOSE j \in S : TRUE
                                     IN  x[i] * y[k + 2 - i] + Sum(S \ {i})
                  IN  Sum(I)
        t0 == Col(0)
        t1 == Col(1) + (t0 \div 256)
        t2 == Col(2) + (t1 \div 256)
        t3 == Col(3) + (t2 \div 256)
        t4 == Col(4) + (t3 \div 256)
    IN  [val |-> <<(t3 % 256) * 256 + (t2 % 256),
                   (t1 % 256) * 256 + (t0 % 256)>>,
         overflow |-> t4 # 0 \/ Col(5) # 0 \/ Col(6) # 0]

\* bit i of a
Bit(a, i) == IF i >= 16 THEN (a[1] \div 2^(i - 16)) % 2 ELSE (a[2] \div 2^i) % 2

\* a - b, for a >= b (a[1] may exceed 16 bits)
SubWord(a, b) ==
    LET borrow == IF a[2] < b[2] THEN 1 ELSE 0
    IN  <<a[1] - b[1] - borrow, a[2] + borrow * Half - b[2]>>

\* the quotient of a by b # 0, by long division: the quotient bits i..0,
\* where rem is the remainder left by the bits of a above bit i
RECURSIVE DivFrom(_, _, _, _)
DivFrom(a, b, i, rem) ==
    IF i < 0 THEN W(0)
    ELSE LET shifted == <<2 * rem[1] + (rem[2] \div 2^15),
                          ((2 * rem[2]) % Half) + Bit(a, i)>>
         IN  IF WordLT(shifted, b)
             THEN DivFrom(a, b, i - 1, shifted)
             ELSE LET q == DivFrom(a, b, i - 1, SubWord(shifted, b))
                  IN  IF i >= 16 THEN <<q[1] + 2^(i - 16), q[2]>>
                      ELSE <<q[1], q[2] + 2^i>>

\* a / b on u32, for b # 0
DivWord(a, b) == DivFrom(a, b, 31, W(0))

(***************************************************************************)
(* Memory (memory.rs).  A Memory is a record [pool, heap]; every method is *)
(* an operator from the Memory and the arguments to the Memory after the   *)
(* call, the value returned and whether the call panicked.                 *)
(***************************************************************************)
PROGRAM_ADDRESS == W(0)

Returns(m, ret) == [mem |-> m, ret |-> ret, panic |-> FALSE]

Panics(m) == [mem |-> m, ret |-> NoWord, panic |-> TRUE]

\* Memory::new
new(instructions) ==
    [pool |-> <<>>, heap |-> [k \in {PROGRAM_ADDRESS} |-> instructions]]

\* allocate, minting one past the table size
allocate_mints_past_len(m, size) ==
    IF m.pool = <<>>
    THEN LET x == W(Cardinality(DOMAIN m.heap) + 1)
         IN  Returns([pool |-> m.pool,
                      heap |-> Insert(m.heap, x, Zeros(AsUsize(size)))], x)
    ELSE LET address == m.pool[Len(m.pool)]
         IN  Returns([pool |-> SubSeq(m.pool, 1, Len(m.pool) - 1),
                      heap |-> [m.heap EXCEPT
                                  ![address] = Resize(@, AsUsize(size))]],
                     address)

\* allocate, reusing the oldest pooled ID instead of the newest
allocate_fifo(m, size) ==
    IF m.pool = <<>>
    THEN LET x == HeapLen(m)
         IN  Returns([pool |-> m.pool,
                      heap |-> Insert(m.heap, x, Zeros(AsUsize(size)))], x)
    ELSE LET address == m.pool[1]
         IN  Returns([pool |-> SubSeq(m.pool, 2, Len(m.pool)),
                      heap |-> [m.heap EXCEPT
                                  ![address] = Resize(@, AsUsize(size))]],
                     address)

\* allocate, minting the table size less one
allocate_mints_last_key(m, size) ==
    IF m.pool = <<>>
    THEN LET x == W(Cardinality(DOMAIN m.heap) - 1)
         IN  Returns([pool |-> m.pool,
                      heap |-> Insert(m.heap, x, Zeros(AsUsize(size)))], x)
    ELSE LET address == m.pool[Len(m.pool)]
         IN  Returns([pool |-> SubSeq(m.pool, 1, Len(m.pool) - 1),
                      heap |-> [m.heap EXCEPT
                                  ![address] = Resize(@, AsUsize(size))]],
                     address)

\* Memory::allocate
allocate(m, size) ==
    IF m.pool = <<>>
    THEN LET x == HeapLen(m)
         IN  Returns([pool |-> m.pool,
                      heap |-> Insert(m.heap, x, Zeros(AsUsize(size)))], x)
    ELSE LET address == m.pool[Len(m.pool)]
             popped  == [pool |-> SubSeq(m.pool, 1, Len(m.pool) - 1),
                         heap |-> m.heap]
         IN  IF ~ WordLT(address, HeapLen(m))
             THEN Panics(popped)
             ELSE IF address \notin DOMAIN m.heap
             THEN Panics(popped)
             ELSE Returns([pool |-> popped.pool,
                           heap |-> [m.heap EXCEPT
                                       ![address] = Resize(@, AsUsize(size))]],
                          address)

\* deallocate, removing the slot from the table instead of clearing it
deallocate_removes_slot(m, address) ==
    IF ~ WordLT(address, HeapLen(m))
    THEN Panics(m)
    ELSE IF address \notin DOMAIN m.heap
    THEN Panics([pool |-> Append(m.pool, address), heap |-> m.heap])
    ELSE Returns([pool |-> Append(m.pool, address),
                  heap |-> [k \in DOMAIN m.heap \ {address} |-> m.heap[k]]],
                 NoWord)

\* Memory::deallocate
deallocate(m, address) ==
    IF ~ WordLT(address, HeapLen(m))
    THEN Panics(m)
    ELSE IF address \notin DOMAIN m.heap
    THEN Panics([pool |-> Append(m.pool, address), heap |-> m.heap])
    ELSE Returns([pool |-> Append(m.pool, address),
                  heap |-> [m.heap EXCEPT ![address] = <<>>]], NoWord)

\* load, yielding 0 where the vector has no such word
load_defaults_to_zero(m, seg_id, address) ==
    IF seg_id \notin DOMAIN m.heap
    THEN Panics(m)
    ELSE IF ~ InBounds(m.heap[seg_id], address)
    THEN Returns(m, W(0))
    ELSE Returns(m, Index(m.heap[seg_id], address))

\* Memory::load
load(m, seg_id, address) ==
    IF seg_id \notin DOMAIN m.heap
    THEN Panics(m)
    ELSE IF ~ InBounds(m.heap[seg_id], address)
    THEN Panics(m)
    ELSE Returns(m, Index(m.heap[seg_id], address))

\* get_instruction, yielding a Halt word past the end of segment 0
get_instruction_halts_past_end(m, pc_) ==
    IF PROGRAM_ADDRESS \notin DOMAIN m.heap
    THEN Panics(m)
    ELSE IF ~ InBounds(m.heap[PROGRAM_ADDRESS], pc_)
    THEN Returns(m, <<7 * 2^12, 0>>)
    ELSE Returns(m, Index(m.heap[PROGRAM_ADDRESS], pc_))

\* Memory::get_instruction
get_instruction(m, pc_) ==
    IF PROGRAM_ADDRESS \notin DOMAIN m.heap
    THEN Panics(m)
    ELSE IF ~ InBounds(m.heap[PROGRAM_ADDRESS], pc_)
    THEN Panics(m)
    ELSE Returns(m, Index(m.heap[PROGRAM_ADDRESS], pc_))

\* store, writing the value to every word of the segment
store_fills(m, seg_id, address, value) ==
    IF seg_id \notin DOMAIN m.heap
    THEN Panics(m)
    ELSE IF ~ InBounds(m.heap[seg_id], address)
    THEN Panics(m)
    ELSE Returns([pool |-> m.pool,
                  heap |-> [m.heap EXCEPT
                              ![seg_id] = [i \in DOMAIN @ |-> value]]],
                 NoWord)

\* Memory::store
store(m, seg_id, address, value) ==
    IF seg_id \notin DOMAIN m.heap
    THEN Panics(m)
    ELSE IF ~ InBounds(m.heap[seg_id], address)
    THEN Panics(m)
    ELSE Returns([pool |-> m.pool,
                  heap |-> [m.heap EXCEPT
                              ![seg_id][AsUsize(address) + 1] = value]],
                 NoWord)

\* load_segment, moving the vector out of its slot instead of cloning it
load_segment_moves(m, seg_id) ==
    IF seg_id \notin DOMAIN m.heap
    THEN Panics(m)
    ELSE LET program == m.heap[seg_id]
         IN  Returns([pool |-> m.pool,
                      heap |-> [m.heap EXCEPT ![seg_id] = <<>>,
                                              ![PROGRAM_ADDRESS] = program]],
                     NoWord)

\* Memory::load_segment
load_segment(m, seg_id) ==
    IF seg_id \notin DOMAIN m.heap
    THEN Panics(m)
    ELSE LET program == m.heap[seg_id]
         IN  IF PROGRAM_ADDRESS \notin DOMAIN m.heap
             THEN Panics(m)
             ELSE Returns([pool |-> m.pool,
                           heap |-> [m.heap EXCEPT
                                       ![PROGRAM_ADDRESS] = program]],
                          NoWord)

(***************************************************************************)
(* State.                                                                  *)
(***************************************************************************)
VARIABLES
    segmap,        \* the Memory: [pool, heap]
    r,             \* the eight registers
    pc,            \* the program counter
    inst_counter,  \* the number of instructions dispatched
    stdout,        \* the bytes written so far
    stdin,         \* the bytes not read yet
    status,        \* "running", "exited" (process::exit(0)) or "panicked"
    overflow_checks, \* whether the build panics on arithmetic overflow
    last,          \* the last call or instruction:
                   \* [op, a, b, c, ret, prev, word]
    live,          \* IDs that are 0 or were returned by allocate, and were
                   \* not deallocated since
    freed,         \* IDs deallocated and not reissued since, oldest first
    allocs,        \* allocate calls made so far, while deallocate was never
                   \* called (0 once it was)
    deallocated    \* whether deallocate was ever called

vars == <<segmap, r, pc, inst_counter, stdout, stdin, status,
          overflow_checks, last, live, freed, allocs, deallocated>>

machine == <<r, pc, inst_counter, stdout, stdin, overflow_checks>>

\* the elements of a sequence
Range(s) == {s[i] : i \in DOMAIN s}

\* s without its last occurrence of x
RemoveLast(s, x) ==
    IF x \notin Range(s) THEN s
    ELSE LET i == CHOOSE j \in DOMAIN s :
                     s[j] = x /\ \A k \in DOMAIN s : s[k] = x => k <= j
         IN  SubSeq(s, 1, i - 1) \o SubSeq(s, i + 1, Len(s))

\* the calls whose record also names the call made before them
NotesPrev == {"allocate", "load_segment"}

\* the record of a call: its name, its arguments, what it returned, and
\* (for the calls of NotesPrev) the name of the call made before it
Call(op, a, b, c, ret) ==
    [op |-> op, a |-> a, b |-> b, c |-> c, ret |-> ret,
     prev |-> IF op \in NotesPrev THEN last.op ELSE "any", word |-> NoWord]

StatusAfter(res) == IF res.panic THEN "panicked" ELSE "running"

\* the history variables after an allocate call
NoteAllocate(res) ==
    /\ live' = IF res.panic THEN live ELSE live \cup {res.ret}
    /\ freed' = IF res.panic THEN freed ELSE RemoveLast(freed, res.ret)
    /\ allocs' = IF deallocated THEN allocs ELSE allocs + 1
    /\ UNCHANGED deallocated

\* the history variables after a deallocate call
NoteDeallocate(res, address) ==
    /\ live' = IF res.panic THEN live ELSE live \ {address}
    /\ freed' = IF res.panic THEN freed ELSE Append(freed, address)
    /\ deallocated' = TRUE
    /\ allocs' = 0

NoteNothing == UNCHANGED <<live, freed, allocs, deallocated>>

(***************************************************************************)
(* The Memory driven by an arbitrary caller: any sequence of calls of its  *)
(* public methods on a fresh Memory.  A panic ends the run.                *)
(***************************************************************************)
\* a word that is not 0, to tell stored words from zero-initialized ones
Mark == W(99)

Values == {W(0), Mark}

\* the sizes requested from allocate
Sizes == {W(0), W(1)}

\* the offsets passed to load, store and get_instruction: one inside a
\* segment of one word, one outside
Offsets == {W(0), W(1)}

\* every ID the table can hold; those at or above the table size were never
\* issued
Ids == {W(n) : n \in 0..MaxSegs - 1}

Images == UNION {[1..AsUsize(size) -> Values] : size \in Sizes}

InitMachine ==
    /\ r = [i \in 0..7 |-> W(0)]
    /\ pc = W(0)
    /\ inst_counter = 0
    /\ stdout = <<>>
    /\ status = "running"
    /\ last = [op |-> "new", a |-> NoWord, b |-> NoWord, c |-> NoWord,
               ret |-> NoWord, prev |-> "none", word |-> NoWord]
    /\ live = {PROGRAM_ADDRESS}
    /\ freed = <<>>
    /\ allocs = 0
    /\ deallocated = FALSE

InitMemory ==
    /\ \E instructions \in Images : segmap = new(instructions)
    /\ stdin = <<>>
    /\ overflow_checks = FALSE
    /\ InitMachine

Allocate(size) ==
    /\ status = "running"
    /\ segmap.pool # <<>> \/ Cardinality(DOMAIN segmap.heap) < MaxSegs
    /\ LET res == allocate(segmap, size)
       IN  /\ segmap' = res.mem
           /\ status' = StatusAfter(res)
           /\ last' = Call("allocate", size, NoWord, NoWord, res.ret)
           /\ NoteAllocate(res)
    /\ UNCHANGED machine

Deallocate(address) ==
    /\ status = "running"
    /\ Len(segmap.pool) < MaxPool
    /\ LET res == deallocate(segmap, address)
       IN  /\ segmap' = res.mem
           /\ status' = StatusAfter(res)
           /\ last' = Call("deallocate", address, NoWord, NoWord, res.ret)
           /\ NoteDeallocate(res, address)
    /\ UNCHANGED machine

MemLoad(seg_id, address) ==
    /\ status = "running"
    /\ LET res == load(segmap, seg_id, address)
       IN  /\ segmap' = res.mem
           /\ status' = StatusAfter(res)
           /\ last' = Call("load", seg_id, address, NoWord, res.ret)
    /\ NoteNothing
    /\ UNCHANGED machine

GetInstruction(pc_) ==
    /\ status = "running"
    /\ LET res == get_instruction(segmap, pc_)
       IN  /\ segmap' = res.mem
           /\ status' = StatusAfter(res)
           /\ last' = Call("get_instruction", pc_, NoWord, NoWord, res.ret)
    /\ NoteNothing
    /\ UNCHANGED machine

MemStore(seg_id, address, value) ==
    /\ status = "running"
    /\ LET res == store(segmap, seg_id, address, value)
       IN  /\ segmap' = res.mem
           /\ status' = StatusAfter(res)
           /\ last' = Call("store", seg_id, address, value, res.ret)
    /\ NoteNothing
    /\ UNCHANGED machine

LoadSegment(seg_id) ==
    /\ status = "running"
    /\ LET res == load_segment(segmap, seg_id)
       IN  /\ segmap' = res.mem
           /\ status' = StatusAfter(res)
           /\ last' = Call("load_segment", seg_id, NoWord, NoWord, res.ret)
    /\ NoteNothing
    /\ UNCHANGED machine

NextMemory ==
    \/ \E size \in Sizes : Allocate(size)
    \/ \E address \in Ids : Deallocate(address)
    \/ \E seg_id \in Ids, address \in Offsets : MemLoad(seg_id, address)
    \/ \E pc_ \in Offsets : GetInstruction(pc_)
    \/ \E seg_id \in Ids, address \in Offsets, value \in Values :
          MemStore(seg_id, address, value)
    \/ \E seg_id \in Ids : LoadSegment(seg_id)

SpecMemory == InitMemory /\ [][NextMemory]_vars
(***************************************************************************)
(* Instruction decoding (machine.rs).                                      *)
(***************************************************************************)
\* enum Opcode, in the order of its discriminants
Opcode ==
    <<"CMov", "Load", "Store", "Add", "Mul", "Div", "Nand", "Halt",
      "MapSegment", "UnmapSegment", "Output", "Input", "LoadProgram",
      "LoadValue">>

\* parse_opcode: "None" stands for the Option's None
parse_opcode(instruction) ==
    LET n == AsUsize(AndWord(Shr(instruction, 28), W(15)))
    IN  IF n < 14 THEN Opcode[n + 1] ELSE "None"

\* decode, taking the low 26 bits of the word as the value
decode_keeps_26_bits(instruction) ==
    LET opcode == parse_opcode(instruction)
        inst   == [opcode |-> opcode, ra |-> W(0), rb |-> W(0), rc |-> W(0),
                   value |-> W(0)]
    IN  IF opcode = "None" THEN inst
        ELSE IF opcode = "LoadValue"
        THEN [inst EXCEPT !.ra = AndWord(Shr(instruction, 25), W(7)),
                          !.value = Shr(Shl(instruction, 6), 6)]
        ELSE [inst EXCEPT !.ra = AndWord(Shr(instruction, 6), W(7)),
                          !.rb = AndWord(Shr(instruction, 3), W(7)),
                          !.rc = AndWord(instruction, W(7))]

\* Instruction::decode: a record whose opcode is "None" stands for None
decode(instruction) ==
    LET opcode == parse_opcode(instruction)
        inst   == [opcode |-> opcode, ra |-> W(0), rb |-> W(0), rc |-> W(0),
                   value |-> W(0)]
    IN  IF opcode = "None" THEN inst
        ELSE IF opcode = "LoadValue"
        THEN [inst EXCEPT !.ra = AndWord(Shr(instruction, 25), W(7)),
                          !.value = Shr(Shl(instruction, 7), 7)]
        ELSE [inst EXCEPT !.ra = AndWord(Shr(instruction, 6), W(7)),
                          !.rb = AndWord(Shr(instruction, 3), W(7)),
                          !.rc = AndWord(instruction, W(7))]

(***************************************************************************)
(* Program images given to run.                                            *)
(***************************************************************************)
\* longest program drawn from ProgWords
MaxProg == 2
\* most instructions dispatched in a run
MaxInstr == 12
\* largest segment the machine maps
MaxWords == 4

\* the word of a three-register instruction
Enc(op, a, b, c) == <<op * 2^12, a * 64 + b * 8 + c>>

\* the word of a Load Value instruction
EncLV(a, value) == <<13 * 2^12 + a * 2^9 + (value \div Half), value % Half>>

\* a word whose opcode field is 14
IllegalWord == <<14 * 2^12, 0>>

ProgWords ==
    {EncLV(1, 1), EncLV(2, 99), Enc(0, 4, 2, 1), Enc(1, 4, 3, 0),
     Enc(2, 3, 0, 2), Enc(3, 4, 2, 2), Enc(4, 4, 2, 2), Enc(5, 4, 2, 1),
     Enc(6, 6, 0, 0), Enc(7, 0, 0, 0), Enc(8, 0, 3, 1), Enc(9, 0, 0, 3),
     Enc(10, 0, 0, 2), Enc(11, 0, 0, 4), Enc(12, 0, 3, 0), IllegalWord}

\* r0 := 72; output r0; halt
Hello == <<EncLV(0, 72), Enc(10, 0, 0, 0), Enc(7, 0, 0, 0)>>

\* r3 := map(4); seg r3 [2] := 99; r4 := seg r3 [2]; output r4; halt
StoreLoad ==
    <<EncLV(1, 4), Enc(8, 0, 3, 1), EncLV(2, 99), EncLV(5, 2),
      Enc(2, 3, 5, 2), Enc(1, 4, 3, 5), Enc(10, 0, 0, 4), Enc(7, 0, 0, 0)>>

\* output 99; r3 := map(1); unmap r3; r4 := seg r3 [0]; output 99
LoadUnmapped ==
    <<EncLV(2, 99), Enc(10, 0, 0, 2), EncLV(1, 1), Enc(8, 0, 3, 1),
      Enc(9, 0, 0, 3), Enc(1, 4, 3, 0), Enc(10, 0, 0, 2)>>

\* output 99; r4 := seg 5 [0] (never mapped); output r4
LoadNeverMapped ==
    <<EncLV(2, 99), Enc(10, 0, 0, 2), EncLV(1, 5), Enc(1, 4, 1, 0),
      Enc(10, 0, 0, 4)>>

\* r3 := map(1); seg r3 [1] := 99 (out of bounds); output 99
StoreOutOfBounds ==
    <<EncLV(1, 1), Enc(8, 0, 3, 1), EncLV(2, 99), Enc(2, 3, 1, 2),
      Enc(10, 0, 0, 2)>>

\* r3 := map(3); seg r3 [1] := 99; load program r3 at 1.  The words 99 and
\* 0 are Conditional Moves; after them the pc leaves segment 0.
Jump ==
    <<EncLV(1, 3), Enc(8, 0, 3, 1), EncLV(2, 99), EncLV(5, 1),
      Enc(2, 3, 5, 2), Enc(12, 0, 3, 5)>>

\* r6 := 0xFFFFFFFF; r1 := 1; r4 := r6 + r1; halt
AddWraps == <<Enc(6, 6, 0, 0), EncLV(1, 1), Enc(3, 4, 6, 1), Enc(7, 0, 0, 0)>>

\* r6 := 0xFFFFFFFF; r5 := r6 * r6; halt
MulWraps == <<Enc(6, 6, 0, 0), Enc(4, 5, 6, 6), Enc(7, 0, 0, 0)>>

\* r0 := 328 (256 + 72); output r0; halt
OutputWide == <<EncLV(0, 328), Enc(10, 0, 0, 0), Enc(7, 0, 0, 0)>>

\* r6 := 0xFFFFFFFF; r1 := 7; r4 := r6 / r1; output r4; r4 := r4 / r0 (zero)
Divide ==
    <<Enc(6, 6, 0, 0), EncLV(1, 7), Enc(5, 4, 6, 1), Enc(10, 0, 0, 4),
      Enc(5, 4, 4, 0)>>

\* r2 := 99; move r2 to r4 if r1 (0); r1 := 1; move r2 to r4 if r1; halt
Move ==
    <<EncLV(2, 99), Enc(0, 4, 2, 1), EncLV(1, 1), Enc(0, 4, 2, 1),
      Enc(7, 0, 0, 0)>>

\* r1 := 3; r2 := 99; seg 0 [3] := 99, over the Halt; the word 99 is a
\* Conditional Move, and after it the pc leaves segment 0
SelfModify == <<EncLV(1, 3), EncLV(2, 99), Enc(2, 0, 1, 2), Enc(7, 0, 0, 0)>>

Scenarios ==
    {Hello, StoreLoad, LoadUnmapped, LoadNeverMapped, StoreOutOfBounds, Jump,
     AddWraps, MulWraps, OutputWide, Divide, Move, SelfModify}

Programs == Scenarios \cup UNION {[1..n -> ProgWords] : n \in 1..MaxProg}

\* what the program finds on its standard input
Inputs == {<<>>, <<72>>}

(***************************************************************************)
(* run (machine.rs): one action per cycle of the loop, by its outcome.     *)
(***************************************************************************)
Init ==
    /\ \E program \in Programs : segmap = new(program)
    /\ stdin \in Inputs
    /\ overflow_checks \in BOOLEAN
    /\ InitMachine

\* segmap.get_instruction(pc)
Fetch == get_instruction(segmap, pc)

\* Index<u32> for Registers
Reg(i) == r[AsUsize(i)]

\* IndexMut<u32> for Registers: the registers after r[i] = val
SetReg(i, val) == [r EXCEPT ![AsUsize(i)] = val]

Running == status = "running" /\ inst_counter < MaxInstr

\* inst_counter += 1; pc += 1
Advance ==
    /\ inst_counter' = inst_counter + 1
    /\ pc' = AddWord(pc, W(1)).val

\* the record of an instruction: its name, the values of its three
\* registers before it, the word it computed, the instruction before it and
\* the instruction word fetched
Instr(instr, ret) ==
    [op |-> instr.opcode, a |-> Reg(instr.ra), b |-> Reg(instr.rb),
     c |-> Reg(instr.rc), ret |-> ret, prev |-> last.op, word |-> Fetch.ret]

\* the record of a cycle that ends before dispatch
NoInstr(op) ==
    [op |-> op, a |-> NoWord, b |-> NoWord, c |-> NoWord, ret |-> NoWord,
     prev |-> last.op, word |-> Fetch.ret]

\* segmap.get_instruction(pc) panics
FetchPanics ==
    /\ Running
    /\ Fetch.panic
    /\ status' = "panicked"
    /\ last' = NoInstr("get_instruction")
    /\ NoteNothing
    /\ UNCHANGED <<segmap, machine>>

\* panic!("illegal instruction")
IllegalInstruction(instr) ==
    /\ instr.opcode = "None"
    /\ status' = "panicked"
    /\ last' = NoInstr("None")
    /\ NoteNothing
    /\ UNCHANGED <<segmap, machine>>

\* the instruction writes val to r[ra]
Compute(instr, val) ==
    /\ Advance
    /\ r' = SetReg(instr.ra, val)
    /\ last' = Instr(instr, val)
    /\ NoteNothing
    /\ UNCHANGED <<segmap, stdout, stdin, status, overflow_checks>>

\* the instruction panics in dispatch, before it changes anything
DispatchPanics(instr) ==
    /\ Advance
    /\ status' = "panicked"
    /\ last' = Instr(instr, NoWord)
    /\ NoteNothing
    /\ UNCHANGED <<segmap, r, stdout, stdin, overflow_checks>>

\* Conditional Move, moving whatever r[rc] holds
CMov_always_moves(instr) ==
    /\ instr.opcode = "CMov"
    /\ Compute(instr, Reg(instr.rb))

CMov(instr) ==
    /\ instr.opcode = "CMov"
    /\ Compute(instr, IF Reg(instr.rc) # W(0) THEN Reg(instr.rb)
                      ELSE Reg(instr.ra))

Load(instr) ==
    /\ instr.opcode = "Load"
    /\ LET res == load(segmap, Reg(instr.rb), Reg(instr.rc))
       IN  IF res.panic THEN DispatchPanics(instr)
           ELSE Compute(instr, res.ret)

Store(instr) ==
    /\ instr.opcode = "Store"
    /\ LET res == store(segmap, Reg(instr.ra), Reg(instr.rb), Reg(instr.rc))
       IN  IF res.panic THEN DispatchPanics(instr)
           ELSE /\ Advance
                /\ segmap' = res.mem
                /\ last' = Instr(instr, NoWord)
                /\ NoteNothing
                /\ UNCHANGED <<r, stdout, stdin, status, overflow_checks>>

Add(instr) ==
    /\ instr.opcode = "Add"
    /\ LET sum == AddWord(Reg(instr.rb), Reg(instr.rc))
       IN  IF sum.overflow /\ overflow_checks THEN DispatchPanics(instr)
           ELSE Compute(instr, sum.val)

Mul(instr) ==
    /\ instr.opcode = "Mul"
    /\ LET product == MulWord(Reg(instr.rb), Reg(instr.rc))
       IN  IF product.overflow /\ overflow_checks THEN DispatchPanics(instr)
           ELSE Compute(instr, product.val)

\* Divide, yielding 0 for a zero divisor
Div_by_zero_yields_zero(instr) ==
    /\ instr.opcode = "Div"
    /\ IF Reg(instr.rc) = W(0) THEN Compute(instr, W(0))
       ELSE Compute(instr, DivWord(Reg(instr.rb), Reg(instr.rc)))

Div(instr) ==
    /\ instr.opcode = "Div"
    /\ IF Reg(instr.rc) = W(0) THEN DispatchPanics(instr)
       ELSE Compute(instr, DivWord(Reg(instr.rb), Reg(instr.rc)))

Nand(instr) ==
    /\ instr.opcode = "Nand"
    /\ Compute(instr, NotWord(AndWord(Reg(instr.rb), Reg(instr.rc))))

\* Halt, reporting the count without leaving the loop
Halt_keeps_running(instr) ==
    /\ instr.opcode = "Halt"
    /\ Advance
    /\ last' = Instr(instr, NoWord)
    /\ NoteNothing
    /\ UNCHANGED <<segmap, r, stdout, stdin, status, overflow_checks>>

Halt(instr) ==
    /\ instr.opcode = "Halt"
    /\ Advance
    /\ status' = "exited"
    /\ last' = Instr(instr, NoWord)
    /\ NoteNothing
    /\ UNCHANGED <<segmap, r, stdout, stdin, overflow_checks>>

MapSegment(instr) ==
    /\ instr.opcode = "MapSegment"
    /\ ~ WordLT(W(MaxWords), Reg(instr.rc))
    /\ segmap.pool # <<>> \/ Cardinality(DOMAIN segmap.heap) < MaxSegs
    /\ Advance
    /\ LET res == allocate(segmap, Reg(instr.rc))
       IN  /\ segmap' = res.mem
           /\ status' = StatusAfter(res)
           /\ r' = IF res.panic THEN r ELSE SetReg(instr.rb, res.ret)
           /\ last' = Instr(instr, res.ret)
           /\ NoteAllocate(res)
    /\ UNCHANGED <<stdout, stdin, overflow_checks>>

UnmapSegment(instr) ==
    /\ instr.opcode = "UnmapSegment"
    /\ Len(segmap.pool) < MaxPool
    /\ Advance
    /\ LET res == deallocate(segmap, Reg(instr.rc))
       IN  /\ segmap' = res.mem
           /\ status' = StatusAfter(res)
           /\ last' = Instr(instr, NoWord)
           /\ NoteDeallocate(res, Reg(instr.rc))
    /\ UNCHANGED <<r, stdout, stdin, overflow_checks>>

Output(instr) ==
    /\ instr.opcode = "Output"
    /\ Advance
    /\ LET value == Reg(instr.rc)[2] % 256
       IN  stdout' = Append(stdout, value)
    /\ last' = Instr(instr, NoWord)
    /\ NoteNothing
    /\ UNCHANGED <<segmap, r, stdin, status, overflow_checks>>

Input(instr) ==
    /\ instr.opcode = "Input"
    /\ Advance
    /\ LET value == IF stdin # <<>> THEN W(Head(stdin)) ELSE NotWord(W(0))
       IN  /\ r' = SetReg(instr.rc, value)
           /\ last' = Instr(instr, value)
    /\ stdin' = IF stdin # <<>> THEN Tail(stdin) ELSE stdin
    /\ NoteNothing
    /\ UNCHANGED <<segmap, stdout, status, overflow_checks>>

\* Load Program, with the pc incremented after the jump
LoadProgram_then_increments(instr) ==
    /\ instr.opcode = "LoadProgram"
    /\ inst_counter' = inst_counter + 1
    /\ LET res == load_segment(segmap, Reg(instr.rb))
       IN  /\ segmap' = res.mem
           /\ status' = StatusAfter(res)
           /\ pc' = IF res.panic THEN AddWord(pc, W(1)).val
                    ELSE AddWord(Reg(instr.rc), W(1)).val
    /\ last' = Instr(instr, NoWord)
    /\ NoteNothing
    /\ UNCHANGED <<r, stdout, stdin, overflow_checks>>

LoadProgram(instr) ==
    /\ instr.opcode = "LoadProgram"
    /\ inst_counter' = inst_counter + 1
    /\ LET res == load_segment(segmap, Reg(instr.rb))
       IN  /\ segmap' = res.mem
           /\ status' = StatusAfter(res)
           /\ pc' = IF res.panic THEN AddWord(pc, W(1)).val
                    ELSE Reg(instr.rc)
    /\ last' = Instr(instr, NoWord)
    /\ NoteNothing
    /\ UNCHANGED <<r, stdout, stdin, overflow_checks>>

LoadValue(instr) ==
    /\ instr.opcode = "LoadValue"
    /\ Compute(instr, instr.value)

\* the instruction of this cycle: Instruction::decode of the word fetched
Decoded == IF Running /\ ~ Fetch.panic THEN {decode(Fetch.ret)} ELSE {}

Next ==
    \/ FetchPanics
    \/ \E instr \in Decoded : IllegalInstruction(instr)
    \/ \E instr \in Decoded : CMov(instr)
    \/ \E instr \in Decoded : Load(instr)
    \/ \E instr \in Decoded : Store(instr)
    \/ \E instr \in Decoded : Add(instr)
    \/ \E instr \in Decoded : Mul(instr)
    \/ \E instr \in Decoded : Div(instr)
    \/ \E instr \in Decoded : Nand(instr)
    \/ \E instr \in Decoded : Halt(instr)
    \/ \E instr \in Decoded : MapSegment(instr)
    \/ \E instr \in Decoded : UnmapSegment(instr)
    \/ \E instr \in Decoded : Output(instr)
    \/ \E instr \in Decoded : Input(instr)
    \/ \E instr \in Decoded : LoadProgram(instr)
    \/ \E instr \in Decoded : LoadValue(instr)

Spec == Init /\ [][Next]_vars

(***************************************************************************)
(* Instruction::decode on its own: the first cycle of run up to the        *)
(* decoding, on a one-word program drawn from words that exercise every    *)
(* opcode and every field.                                                 *)
(***************************************************************************)
\* the upper halves: each value of the opcode field over bits 27..16 all
\* clear, bit 25 alone, bits 27..25 all set, bits 27, 25 and 16, all set
DecodeHi ==
    {op * 2^12 + x : op \in 0..15, x \in {0, 2^9, 7 * 2^9, 5 * 2^9 + 1, 4095}}

\* the lower halves: all clear, each register field alone, mixed fields
\* (0x123), all set
DecodeLo == {0, 7, 56, 448, 291, 65535}

DecodeWords == {<<hi, lo>> : hi \in DecodeHi, lo \in DecodeLo}

InitDecode ==
    /\ \E instruction \in DecodeWords : segmap = new(<<instruction>>)
    /\ stdin = <<>>
    /\ overflow_checks = FALSE
    /\ InitMachine

\* Instruction::decode(segmap.get_instruction(pc)): the record holds the
\* fields of the Instruction (the register indices, not their values)
Decode ==
    /\ status = "running"
    /\ last.op = "new"
    /\ ~ Fetch.panic
    /\ LET inst == decode(Fetch.ret)
       IN  last' = [op |-> inst.opcode, a |-> inst.ra, b |-> inst.rb,
                    c |-> inst.rc, ret |-> inst.value, prev |-> last.op,
                    word |-> Fetch.ret]
    /\ NoteNothing
    /\ UNCHANGED <<segmap, machine, status>>

NextDecode == Decode

SpecDecode == InitDecode /\ [][NextDecode]_vars

(***************************************************************************)
(* Properties of the Memory.                                               *)
(***************************************************************************)
Heap == segmap.heap

Pool == segmap.pool

Completed(op) == last.op = op /\ status = "running"

\* C1: allocate never returns an ID that is live, that is, an ID that is 0
\* or that an earlier allocate returned and that was not deallocated since.
C1_AllocateReturnsNoLiveId ==
    [][(last'.op = "allocate" /\ status' = "running")
          => last'.ret \notin live]_vars

\* C2: deallocate(0) always ends in a fault: ID 0 is never in the reuse
\* pool, segment 0 is never cleared by deallocate, and allocate never
\* returns 0.
C2_ZeroIsNeverDeallocated ==
    /\ (last.op = "deallocate" /\ last.a = W(0)) => status = "panicked"
    /\ W(0) \notin Range(Pool)
    /\ Completed("allocate") => last.ret # W(0)

\* C3: deallocate of an ID that was deallocated and not reissued since never
\* completes, so the reuse pool never holds the same ID twice.
C3_NoDoubleFree ==
    /\ Completed("deallocate")
          => last.a \notin Range(SubSeq(freed, 1, Len(freed) - 1))
    /\ \A i, j \in DOMAIN Pool : Pool[i] = Pool[j] => i = j

\* C4: when allocate(size) returns id, segment id has exactly size words
\* and every one of them is 0, whether id was minted or reused.
C4_AllocateZeroed ==
    Completed("allocate") => Heap[last.ret] = Zeros(AsUsize(last.a))

\* C5: ID reuse is LIFO.  allocate returns the most recently deallocated ID
\* that was not reissued yet; in particular allocate(n) called right after
\* deallocate(X) completed returns X, and segment X then holds n zeros.
C5_LifoReuse ==
    [][(last'.op = "allocate" /\ status' = "running") =>
          /\ freed # <<>> => last'.ret = freed[Len(freed)]
          /\ last.op = "deallocate" =>
                /\ last'.ret = last.a
                /\ segmap'.heap[last.a] = Zeros(AsUsize(last'.a))]_vars

\* C5 witness: an allocate of a non-empty segment right after a deallocate
\* completed, with another freed ID still waiting in the pool.
C5_Witness ==
    /\ Completed("allocate")
    /\ last.prev = "deallocate"
    /\ last.a = W(1)
    /\ Pool # <<>>
    /\ Pool[Len(Pool)] # last.ret

\* C6: on a fresh Memory, as long as deallocate was never called, the k-th
\* allocate call returns k, whatever the sizes and whatever load, store and
\* load_segment calls are made in between.
C6_SequentialIds ==
    (last.op = "allocate" /\ ~ deallocated)
        => status = "running" /\ last.ret = W(allocs)

\* C6 witness: the second allocate of a run without deallocate, made after
\* a store and a load_segment.
C6_Witness ==
    /\ Completed("allocate")
    /\ ~ deallocated
    /\ allocs = 2
    /\ last.prev = "load_segment"
    /\ Heap[W(1)] = <<Mark>>

\* C7: load_segment(id) on an existing segment replaces the contents of
\* segment 0 with a copy of segment id and changes nothing else;
\* load_segment(0) changes nothing; the copy is independent: a store changes
\* the segment it names and no other.
C7_LoadSegmentFrame ==
    [][/\ (last'.op = "load_segment" /\ status' = "running") =>
             /\ DOMAIN segmap'.heap = DOMAIN Heap
             /\ segmap'.heap[W(0)] = Heap[last'.a]
             /\ \A k \in DOMAIN Heap \ {W(0)} : segmap'.heap[k] = Heap[k]
             /\ segmap'.pool = Pool
             /\ last'.a = W(0) => segmap' = segmap
       /\ (last'.op = "store" /\ status' = "running") =>
             /\ DOMAIN segmap'.heap = DOMAIN Heap
             /\ \A k \in DOMAIN Heap \ {last'.a} : segmap'.heap[k] = Heap[k]
             /\ segmap'.pool = Pool]_vars

\* C7 witness: load_segment(1) right after a store marked segment 1, while
\* segment 2 waits in the pool; segments 0 and 1 both hold the marked word.
C7_Witness ==
    /\ Completed("load_segment")
    /\ last.prev = "store"
    /\ last.a = W(1)
    /\ Heap[W(0)] = <<Mark>>
    /\ Heap[W(1)] = <<Mark>>
    /\ Pool = <<W(2)>>

\* C9: load_segment(id) fails with a fault whenever id is not a live
\* segment: when id was never issued, and when id was deallocated and not
\* reissued since.
C9_LoadSegmentOfDeadIdFaults ==
    (last.op = "load_segment" /\ last.a \notin live) => status = "panicked"

\* C17: the IDs returned by successive allocate calls with no deallocate
\* call between them are strictly increasing, also when the reuse pool is
\* not empty at the first of them.  Stated for two allocate calls in a row
\* made while segment 0 is live and the pool holds distinct IDs that are not
\* live (no ID deallocated twice), so that a violation owes nothing to C2
\* and C3.
C17_SuccessiveIdsIncrease ==
    [][(/\ Completed("allocate")
        /\ W(0) \in live
        /\ Range(Pool) \cap live = {}
        /\ \A i, j \in DOMAIN Pool : Pool[i] = Pool[j] => i = j
        /\ last'.op = "allocate"
        /\ status' = "running") => WordLT(last.ret, last'.ret)]_vars

\* C17, amended: an allocate call that finds the reuse pool empty returns an
\* ID greater than every ID issued before it (every key of the table), so
\* the IDs of successive allocate calls are strictly increasing from the
\* first call that finds the pool empty on.
C17_IdsIncreaseOncePoolIsEmpty ==
    [][(last'.op = "allocate" /\ Pool = <<>>) =>
          /\ status' = "running"
          /\ \A k \in DOMAIN Heap \cup live \cup Range(freed) :
                WordLT(k, last'.ret)
          /\ Completed("allocate") => WordLT(last.ret, last'.ret)]_vars

\* C17 witness: after a deallocate, an allocate right after another
\* allocate returned 2 and left the pool empty, with all of 0, 1, 2 live.
C17_Witness ==
    /\ Completed("allocate")
    /\ last.prev = "allocate"
    /\ deallocated
    /\ Pool = <<>>
    /\ last.ret = W(2)
    /\ live = {W(0), W(1), W(2)}

\* C18: the keys of the segment table are exactly 0..n-1 for its size n,
\* and every ID in the reuse pool is less than n; so allocate never panics,
\* and every ID issued so far is a key, which the next minted ID (n) is not.
C18_TableKeysAreDense ==
    /\ DOMAIN Heap = {W(i) : i \in 0..Cardinality(DOMAIN Heap) - 1}
    /\ \A i \in DOMAIN Pool : WordLT(Pool[i], HeapLen(segmap))
    /\ last.op = "allocate" => status = "running"
    /\ live \cup Range(freed) \subseteq DOMAIN Heap
    /\ HeapLen(segmap) \notin DOMAIN Heap

\* C18 witness: two IDs wait in the pool of a table of three slots whose
\* segments 1 and 2 were cleared.
C18_Witness ==
    /\ Completed("deallocate")
    /\ Pool = <<W(2), W(1)>>
    /\ DOMAIN Heap = {W(0), W(1), W(2)}
    /\ Heap[W(1)] = <<>>
    /\ Heap[W(2)] = <<>>
    /\ Heap[W(0)] = <<Mark>>

(***************************************************************************)
(* Properties of the machine.                                              *)
(***************************************************************************)
\* C8: after a Load Program with r[rb] = id and r[rc] = k completes, the pc
\* is k and the next instruction fetched is word k of the contents of
\* segment id (there is none, and the fetch panics, when segment id has no
\* word k).
C8_LoadProgramFetch ==
    [][(last.op = "LoadProgram" /\ status = "running") =>
          LET id == last.b
              k  == last.c
          IN  /\ pc = k
              /\ IF k[1] = 0 /\ k[2] < Len(Heap[id])
                 THEN last'.word = Heap[id][k[2] + 1]
                 ELSE last'.op = "get_instruction" /\ status' = "panicked"]_vars

\* C8 witness: the instruction after Load Program of segment 1 at 1 was
\* word 1 of segment 1 (99), which differs from word 2 of segment 1 and
\* from word 1 of the program that ran before.
C8_Witness ==
    /\ status = "running"
    /\ last.prev = "LoadProgram"
    /\ last.word = Mark
    /\ Heap[W(0)] = <<W(0), Mark, W(0)>>
    /\ Heap[W(1)] = Heap[W(0)]
    /\ pc = W(2)

Ra(word) == (word[2] \div 64) % 8

\* C11: Halted is terminal.  A dispatched Halt ends the run successfully and
\* changes no register, segment or output; no step follows it (nothing is
\* fetched, the pc does not move, nothing is written), whatever words remain
\* in segment 0; and the run ends successfully only by a Halt.
C11_HaltIsTerminal ==
    [][/\ status = "running"
       /\ last'.op = "Halt" =>
             /\ status' = "exited"
             /\ r' = r
             /\ segmap' = segmap
             /\ stdout' = stdout
       /\ status' = "exited" => last'.op = "Halt"]_vars

\* C11 witness: the run ended at a Halt that is followed in segment 0 by an
\* Output instruction, and nothing was written.
C11_Witness ==
    /\ status = "exited"
    /\ last.op = "Halt"
    /\ Heap[W(0)] = <<Enc(7, 0, 0, 0), Enc(10, 0, 0, 2)>>
    /\ pc = W(1)
    /\ stdout = <<>>

\* C12: Add and Multiply never fault and wrap modulo 2^32: after Add,
\* r[ra] is the low 32 bits of r[rb] + r[rc]; after Multiply, of
\* r[rb] * r[rc].
C12_AddMulWrap ==
    [][last'.op \in {"Add", "Mul"} =>
          /\ status' = "running"
          /\ r'[Ra(last'.word)] =
                IF last'.op = "Add" THEN AddWord(last'.b, last'.c).val
                ELSE MulWord(last'.b, last'.c).val]_vars

\* C13: an Output of a register value above 255 is a fault and writes no
\* byte.
C13_OutputAbove255Faults ==
    [][(last'.op = "Output" /\ WordLT(W(255), last'.c)) =>
          status' = "panicked" /\ stdout' = stdout]_vars

\* C14: Divide by a divisor that is not 0 sets r[ra] to the quotient q, the
\* word with q * r[rc] <= r[rb] < q * r[rc] + r[rc]; Divide by 0 is a
\* fault that writes no register, and no step follows it.
C14_Divide ==
    [][/\ status = "running"
       /\ last'.op = "Div" =>
             IF last'.c = W(0)
             THEN status' = "panicked" /\ r' = r
             ELSE LET q == r'[Ra(last'.word)]
                      p == MulWord(q, last'.c)
                  IN  /\ status' = "running"
                      /\ r' = [r EXCEPT ![Ra(last'.word)] = q]
                      /\ ~ p.overflow
                      /\ ~ WordLT(last'.b, p.val)
                      /\ WordLT(SubWord(last'.b, p.val), last'.c)]_vars

\* C14 witness: 0xFFFFFFFF / 7 = 0x24924924 was computed and its low byte
\* written, and then a Divide by 0 panicked, leaving the quotient in r4.
C14_Witness ==
    /\ status = "panicked"
    /\ last.op = "Div"
    /\ last.c = W(0)
    /\ r[4] = <<9362, 18724>>
    /\ stdout = <<36>>

\* C15: Conditional Move with r[rc] = 0 changes no register; with
\* r[rc] # 0 it changes r[ra] to r[rb] and no other register.  Either way
\* the segments, the reuse pool and the output are unchanged, the run goes
\* on, and the pc and the instruction count advance by one.
C15_CMovFrame ==
    [][last'.op = "CMov" =>
          /\ r' = IF last'.c = W(0) THEN r
                  ELSE [r EXCEPT ![Ra(last'.word)] = last'.b]
          /\ segmap' = segmap
          /\ stdout' = stdout
          /\ stdin' = stdin
          /\ status' = "running"
          /\ pc' = AddWord(pc, W(1)).val
          /\ inst_counter' = inst_counter + 1]_vars

\* C15 witness: the second Conditional Move of the program Move moved 99
\* to r4, which the first one (r1 = 0) had left at 0.
C15_Witness ==
    /\ last.op = "CMov"
    /\ last.c = W(1)
    /\ last.a = W(0)
    /\ last.b = Mark
    /\ r[4] = Mark
    /\ r[2] = Mark

\* C16: decoding a word yields no instruction exactly when its top 4 bits
\* are 14 or 15; otherwise the opcode is the one numbered by the top 4
\* bits; for the opcodes 0..12, ra, rb and rc are bits 8..6, 5..3 and 2..0;
\* for opcode 13, ra is bits 27..25 and the value is the low 25 bits, zero
\* extended.  Every register index decoded is in 0..7.
C16_Decode ==
    last.op # "new" =>
        LET w   == last.word
            top == w[1] \div 2^12
        IN  /\ last.op = "None" <=> top \in {14, 15}
            /\ top < 14 => last.op = Opcode[top + 1]
            /\ top \in 0..12 =>
                  /\ last.a = W((w[2] \div 64) % 8)
                  /\ last.b = W((w[2] \div 8) % 8)
                  /\ last.c = W(w[2] % 8)
            /\ top = 13 =>
                  /\ last.a = W((w[1] \div 2^9) % 8)
                  /\ last.ret = <<w[1] % 2^9, w[2]>>
            /\ last.op # "None" =>
                  \A i \in {last.a, last.b, last.c} : AsUsize(i) \in 0..7

\* C16 witness: a Load Value word with every bit below the opcode set
\* decoded to register 7 and the value 2^25 - 1.
C16_Witness ==
    /\ last.op = "LoadValue"
    /\ last.word = <<13 * 2^12 + 4095, 65535>>
    /\ last.a = W(7)
    /\ last.ret = <<511, 65535>>

\* C19: a store that completes changes the word it names to the value and
\* nothing else: no other word of any segment, no length, not the pool.  A
\* load that completes returns the word the segment holds and changes
\* nothing.  A word (id, k) changes or disappears only by a store to
\* (id, k), a deallocate of id, an allocate that returns id or, for id = 0,
\* a load_segment; so a load returns the value last stored until one of
\* these.  The program StoreLoad (map 4 words, store 99 at offset 2 of the
\* new segment, load it, output it) writes the byte 99.
C19_StoreLoadRoundTrip ==
    [][LET op   == last'.op
           done == status' = "running"
       IN  /\ (op \in {"store", "Store"} /\ done) =>
                 /\ last'.a \in DOMAIN Heap
                 /\ InBounds(Heap[last'.a], last'.b)
                 /\ segmap' = [pool |-> Pool,
                               heap |-> [Heap EXCEPT
                                   ![last'.a][AsUsize(last'.b) + 1] = last'.c]]
           /\ (op = "load" /\ done) =>
                 /\ segmap' = segmap
                 /\ last'.ret = Heap[last'.a][AsUsize(last'.b) + 1]
           /\ (op = "Load" /\ done) =>
                 /\ segmap' = segmap
                 /\ last'.ret = Heap[last'.b][AsUsize(last'.c) + 1]
           /\ \A id \in DOMAIN Heap : \A k \in DOMAIN Heap[id] :
                 (\/ id \notin DOMAIN segmap'.heap
                  \/ k \notin DOMAIN segmap'.heap[id]
                  \/ segmap'.heap[id][k] # Heap[id][k]) =>
                     \/ op \in {"store", "Store"} /\ last'.a = id
                                                  /\ last'.b = W(k - 1)
                     \/ op = "deallocate" /\ last'.a = id
                     \/ op = "UnmapSegment" /\ last'.c = id
                     \/ op \in {"allocate", "MapSegment"} /\ last'.ret = id
                     \/ op \in {"load_segment", "LoadProgram"} /\ id = W(0)
           /\ (segmap'.heap[W(0)] = StoreLoad /\ status' = "exited") =>
                 stdout' = <<99>>]_vars

\* C19 witness: the program StoreLoad ended at its Halt with 99 in word 2
\* of segment 1 and in r4, and the byte 99 written.
C19_Witness ==
    /\ Heap[W(0)] = StoreLoad
    /\ status = "exited"
    /\ Heap[W(1)] = <<W(0), W(0), Mark, W(0)>>
    /\ r[4] = Mark
    /\ stdout = <<99>>

\* C20: in every state and for every pc, get_instruction(pc) is
\* load(0, pc): the word at pc of segment 0 when pc is less than its
\* length, a fault otherwise.  In the engine, every cycle fetches the word
\* that segment 0 holds at the pc at that time (so a word stored into
\* segment 0 is the one fetched), and a pc at or past the end of segment 0
\* ends the run in a fault, never in a successful exit.
C20_FetchIsLoadOfSegmentZero ==
    /\ [](\A k \in {W(n) : n \in 0..9} \cup {<<1, 0>>, <<65535, 65535>>, pc} :
            LET inside == /\ W(0) \in DOMAIN Heap
                          /\ k[1] = 0
                          /\ k[2] < Len(Heap[W(0)])
            IN  /\ get_instruction(segmap, k) = load(segmap, W(0), k)
                /\ get_instruction(segmap, k).panic <=> ~ inside
                /\ inside => get_instruction(segmap, k).ret
                                = Heap[W(0)][k[2] + 1])
    /\ [][IF pc[1] = 0 /\ pc[2] < Len(Heap[W(0)])
          THEN last'.word = Heap[W(0)][pc[2] + 1]
          ELSE /\ last'.op = "get_instruction"
               /\ status' = "panicked"
               /\ UNCHANGED <<segmap, machine>>]_vars

\* C20 witness: the program SelfModify stored 99 over its Halt at offset
\* 3, the word fetched at pc 3 was 99 (a Conditional Move), and the fetch at
\* pc 4, past the end of segment 0, panicked.
C20_Witness ==
    /\ status = "panicked"
    /\ last.op = "get_instruction"
    /\ last.prev = "CMov"
    /\ pc = W(4)
    /\ Heap[W(0)] = <<EncLV(1, 3), EncLV(2, 99), Enc(2, 0, 1, 2), Mark>>
====
